---- MODULE Spec2Model ----
(***************************************************************************)
(* Model of the AT client of atat (src/atat/src/client.rs): the state      *)
(* machine of Client::send, Client::check_response and Client::check_urc,  *)
(* the three spsc queues it shares with the ingress manager, the serial    *)
(* writer and the countdown timer.                                         *)
(*                                                                         *)
(* A call of send is a sequence of steps (pc), because its block! loops    *)
(* (cooldown wait, byte writes, response poll) let the ingress side and    *)
(* the clock run in between. check_response and check_urc called by the    *)
(* host never wait and are one step each.                                  *)
(***************************************************************************)
EXTENDS Integers, Sequences, FiniteSets, TLC

\* ------------------------------------------------------------- bounds
\* Emissions (Idle sends) the host starts in one run; bounds tx.
MaxSends == 2
\* Capacities of the response, URC and command queues.
ResCap == 1
UrcCap == 2
ComCap == 1
\* Config::cmd_cooldown, in clock ticks.
cmd_cooldown == 2
\* Executions of check_response counted per call (a blocking send may poll
\* without end; the count stops here).
MaxPolls == 2

\* ------------------------------------------------------------- values
Modes == {"Blocking", "NonBlocking", "Timeout"}
States == {"Idle", "AwaitingResponse"}
\* Two commands, as in the tests: one without a response body, one whose
\* response has a string field (its parse can fail).
Cmds == {"cfun", "cun"}
\* Payloads the ingress manager delivers in an Ok slot; ingress-side errors.
Payloads == {"good", "bad"}
IngressErrors == {"InvalidResponse"}
UrcPayloads == {"umwi", "unknown"}

\* AtatCmd::as_string: the wire form of a command (shortened to two bytes).
as_string(c) == IF c = "cfun" THEN <<"F", "4">> ELSE <<"U", "0">>

\* AtatCmd::max_timeout_ms, in clock ticks.
max_timeout_ms(c) == IF c = "cfun" THEN 1 ELSE 2

\* AtatCmd::force_receive_state.
force_receive_state(c) == c = "cun"

\* AtatCmd::parse: NoResponse accepts any payload; the string response
\* rejects a payload whose string field is not quoted (ParseString).
parse(c, p) ==
    IF c = "cun" /\ p = "bad"
    THEN [kind |-> "ParseErr", val |-> "ParseString"]
    ELSE [kind |-> "Resp", val |-> <<c, p>>]

\* AtatUrc::parse(..).ok(): Some(variant) or None.
urc_parse(u) ==
    IF u = "umwi"
    THEN [kind |-> "Urc", val |-> "MessageWaitingIndication"]
    ELSE [kind |-> "None", val |-> "none"]

\* ------------------------------------------------------------- state
VARIABLES
    mode,      \* config.mode, fixed at construction
    state,     \* ClientState
    pc,        \* position of the client inside send, "ready" between calls
    idx,       \* bytes of cmd_string written by the running send
    tx,        \* every byte the serial writer has accepted
    res_q,     \* response queue, ingress -> client
    urc_q,     \* URC queue, ingress -> client
    com_q,     \* command queue, client -> ingress
    timer,     \* ticks left on the CountDown timer, 0 = elapsed
    since,     \* ticks since the last consumed Ok response or URC (capped)
    call,      \* the running call, or the one that has just returned
    ret,       \* the value the call that has just returned gave the host
    turns,     \* Idle -> AwaitingResponse transitions so far
    ends,      \* AwaitingResponse -> Idle transitions so far
    attempts,  \* emissions started so far
    sent       \* the commands whose emission completed, in order

vars == <<mode, state, pc, idx, tx, res_q, urc_q, com_q, timer, since,
          call, ret, turns, ends, attempts, sent>>

NoSlot == [ok |-> TRUE, val |-> "none", late |-> FALSE]

\* A call that has done nothing yet. Besides the operation and its command
\* it records the state at the call, the timer starts made, the ForceState
\* and ClearBuffer tags offered, the flushes, the length of tx at the call
\* and the executions of check_response.
NewCall(op, c) ==
    [op |-> op, cmd |-> c, start |-> state, armed |-> {}, force |-> 0,
     clear |-> 0, flush |-> 0, mark |-> Len(tx), polls |-> 0]

Pending == [kind |-> "pending", val |-> "none", slot |-> NoSlot]

\* No call runs and none has just returned.
NoCall ==
    [op |-> "none", cmd |-> "none", start |-> "Idle", armed |-> {},
     force |-> 0, clear |-> 0, flush |-> 0, mark |-> 0, polls |-> 0]

NoRet == [kind |-> "none", val |-> "none", slot |-> NoSlot]

\* Client::new: state Idle; the timer has not been started.
Init ==
    /\ mode \in Modes
    /\ state = "Idle"
    /\ pc = "ready"
    /\ idx = 0
    /\ tx = <<>>
    /\ res_q = <<>>
    /\ urc_q = <<>>
    /\ com_q = <<>>
    /\ timer = 0
    /\ since = cmd_cooldown
    /\ call = NoCall
    /\ ret = NoRet
    /\ turns = 0
    /\ ends = 0
    /\ attempts = 0
    /\ sent = <<>>

\* ------------------------------------------------------------- helpers
\* heapless spsc Producer::enqueue: appends, or fails when the queue is full.
Enqueue(q, x, cap) == IF Len(q) < cap THEN Append(q, x) ELSE q

\* A send that emits whatever the state is.
IsIdleAlways(s) == TRUE

\* `if let ClientState::Idle = self.state` of send.
IsIdle(s) == s = "Idle"

\* A check_response that takes an Ok slot as the response in any state.
IsAwaitingAlways(s) == TRUE

\* `if let ClientState::AwaitingResponse = self.state` of check_response.
IsAwaiting(s) == s = "AwaitingResponse"

\* A check_response that applies the timeout in every mode.
TimeoutAlways(m) == TRUE

\* A check_response that applies the timeout in no mode.
TimeoutNever(m) == FALSE

\* `else if let Mode::Timeout = self.config.mode` of check_response.
TimeoutApplies(m) == m = "Timeout"

\* self.timer.wait().is_ok()
TimerElapsed(t) == t = 0

\* The timer after send's `match self.config.mode`: Mode::Timeout starts it
\* with cmd.max_timeout_ms(), the other modes leave it alone.
DispatchTimer(m, c, t) == IF m = "Timeout" THEN max_timeout_ms(c) ELSE t

DispatchArmed(m) == IF m = "Timeout" THEN {"timeout"} ELSE {}

\* A write loop that does not advance through cmd_string.
NextByteFirst(c, i) == as_string(c)[1]

\* The byte the write loop `for c in cmd_string.as_bytes()` sends after i
\* bytes have been accepted.
NextByte(c, i) == as_string(c)[i + 1]

\* ------------------------------------------------------------- check_response
\* A variant of ConsumeOk that parses first and leaves on a parse error
\* before the timer is started and the state is set.
ConsumeOkParseFirst(c, result) ==
    IF parse(c, result.val).kind = "ParseErr"
    THEN [res |-> Tail(res_q), st |-> state, tm |-> timer,
          start |-> {}, offer |-> <<>>,
          out |-> parse(c, result.val), slot |-> result]
    ELSE [res |-> Tail(res_q), st |-> "Idle", tm |-> cmd_cooldown,
          start |-> {"cooldown"}, offer |-> <<>>,
          out |-> parse(c, result.val), slot |-> result]

\* A variant of ConsumeOk that ends the turn without starting the timer.
ConsumeOkNoCooldown(c, result) ==
    [res |-> Tail(res_q), st |-> "Idle", tm |-> timer,
     start |-> {}, offer |-> <<>>,
     out |-> parse(c, result.val), slot |-> result]

\* The Ok(resp) arm of check_response while AwaitingResponse: start the
\* timer with the cooldown, set the state to Idle, then parse; the parse
\* result, value or error, is what the call returns.
ConsumeOk(c, result) ==
    [res |-> Tail(res_q), st |-> "Idle", tm |-> cmd_cooldown,
     start |-> {"cooldown"}, offer |-> <<>>,
     out |-> parse(c, result.val), slot |-> result]

\* What one execution of check_response(cmd) does in the current state:
\*   res   the response queue afterwards
\*   st    the client state afterwards
\*   tm    the timer afterwards, start the timer starts it made
\*   offer the tags it offered to the command queue
\*   out   the value it returns, slot the slot it dequeued
check_response(c) ==
    IF res_q # <<>>
    THEN LET result == Head(res_q) IN
         IF result.ok
         THEN IF IsAwaiting(state)
              THEN ConsumeOk(c, result)
              ELSE [res |-> Tail(res_q), st |-> state, tm |-> timer,
                    start |-> {}, offer |-> <<>>,
                    out |-> [kind |-> "WouldBlock", val |-> "none"],
                    slot |-> result]
         ELSE [res |-> Tail(res_q), st |-> state, tm |-> timer,
               start |-> {}, offer |-> <<>>,
               out |-> [kind |-> "IngressErr", val |-> result.val],
               slot |-> result]
    ELSE IF TimeoutApplies(mode) /\ TimerElapsed(timer)
         THEN [res |-> res_q, st |-> "Idle", tm |-> timer,
               start |-> {}, offer |-> <<"ClearBuffer">>,
               out |-> [kind |-> "Timeout", val |-> "none"], slot |-> NoSlot]
         ELSE [res |-> res_q, st |-> state, tm |-> timer,
               start |-> {}, offer |-> <<>>,
               out |-> [kind |-> "WouldBlock", val |-> "none"],
               slot |-> NoSlot]

\* A send that polls until a slot arrives in every mode.
BlocksAlways(m) == TRUE

\* A send that returns would-block to the host in every mode.
BlocksNever(m) == FALSE

\* block!(..) around check_response in send: Blocking and Timeout mode call
\* it again on WouldBlock, NonBlocking returns WouldBlock to the host.
Blocks(m) == m # "NonBlocking"

\* One execution of check_response(c) on behalf of the call cl; the call
\* returns unless it is a send that loops on WouldBlock.
RunCheck(c, cl) ==
    LET e == check_response(c)
        again == cl.op = "send" /\ Blocks(mode) /\ e.out.kind = "WouldBlock"
    IN  /\ res_q' = e.res
        /\ state' = e.st
        /\ timer' = e.tm
        /\ com_q' = IF e.offer = <<>> THEN com_q
                    ELSE Enqueue(com_q, e.offer[1], ComCap)
        /\ since' = IF "cooldown" \in e.start THEN 0 ELSE since
        /\ ends' = IF state = "AwaitingResponse" /\ e.st = "Idle"
                   THEN ends + 1 ELSE ends
        /\ call' = [cl EXCEPT !.armed = @ \cup e.start,
                              !.clear = @ + Len(e.offer),
                              !.polls = IF @ < MaxPolls THEN @ + 1 ELSE @]
        /\ pc' = IF again THEN "poll" ELSE "ready"
        /\ ret' = IF again THEN ret
                  ELSE [kind |-> e.out.kind, val |-> e.out.val,
                        slot |-> e.slot]
        /\ UNCHANGED <<mode, idx, tx, urc_q, turns, attempts, sent>>

\* A send that treats a command queue without room for ForceState as a
\* failure of the emission and returns Error::Write at once.
SendCallNeedsRoom(c) ==
    /\ pc = "ready"
    /\ IsIdle(state) => attempts < MaxSends
    /\ IF IsIdle(state)
       THEN /\ com_q' = IF force_receive_state(c)
                        THEN Enqueue(com_q, "ForceState", ComCap) ELSE com_q
            /\ call' = [NewCall("send", c) EXCEPT
                          !.force = IF force_receive_state(c) THEN 1 ELSE 0]
            /\ IF force_receive_state(c) /\ Len(com_q) = ComCap
               THEN /\ pc' = "ready"
                    /\ ret' = [kind |-> "Write", val |-> "none",
                               slot |-> NoSlot]
               ELSE /\ pc' = "cooldown"
                    /\ ret' = Pending
            /\ idx' = 0
            /\ attempts' = attempts + 1
            /\ timer' = timer
       ELSE /\ com_q' = com_q
            /\ ret' = Pending
            /\ call' = [NewCall("send", c) EXCEPT !.armed = DispatchArmed(mode)]
            /\ pc' = "poll"
            /\ idx' = idx
            /\ attempts' = attempts
            /\ timer' = DispatchTimer(mode, c, timer)
    /\ UNCHANGED <<mode, state, tx, res_q, urc_q, since, turns, ends, sent>>

\* ------------------------------------------------------------- send
\* send(cmd) is called. Idle: offer ForceState if the command asks for it and
\* go on to the cooldown wait. AwaitingResponse: straight to the mode match.
SendCall(c) ==
    /\ pc = "ready"
    /\ IsIdle(state) => attempts < MaxSends
    /\ ret' = Pending
    /\ IF IsIdle(state)
       THEN /\ com_q' = IF force_receive_state(c)
                        THEN Enqueue(com_q, "ForceState", ComCap) ELSE com_q
            /\ call' = [NewCall("send", c) EXCEPT
                          !.force = IF force_receive_state(c) THEN 1 ELSE 0]
            /\ pc' = "cooldown"
            /\ idx' = 0
            /\ attempts' = attempts + 1
            /\ timer' = timer
       ELSE /\ com_q' = com_q
            /\ call' = [NewCall("send", c) EXCEPT !.armed = DispatchArmed(mode)]
            /\ pc' = "poll"
            /\ idx' = idx
            /\ attempts' = attempts
            /\ timer' = DispatchTimer(mode, c, timer)
    /\ UNCHANGED <<mode, state, tx, res_q, urc_q, since, turns, ends, sent>>

\* block!(self.timer.wait()): send goes on once the timer has elapsed.
CooldownWait ==
    /\ pc = "cooldown"
    /\ TimerElapsed(timer)
    /\ pc' = "write"
    /\ UNCHANGED <<mode, state, idx, tx, res_q, urc_q, com_q, timer, since,
                   call, ret, turns, ends, attempts, sent>>

\* send returns Error::Write from the write loop or the flush.
ReturnWrite ==
    /\ pc' = "ready"
    /\ ret' = [kind |-> "Write", val |-> "none", slot |-> NoSlot]

\* A write loop that drops the transport's error and goes on to the next
\* byte.
WriteByteIgnoresError ==
    /\ pc = "write"
    /\ idx < Len(as_string(call.cmd))
    /\ \/ tx' = Append(tx, NextByte(call.cmd, idx))
       \/ tx' = tx
    /\ idx' = idx + 1
    /\ UNCHANGED <<mode, state, pc, ret, res_q, urc_q, com_q, timer, since,
                   call, turns, ends, attempts, sent>>

\* One byte of the write loop: the writer accepts it, or fails for good
\* (nb::Error::Other, mapped to Error::Write). WouldBlock is retried by
\* block! and changes nothing.
WriteByte ==
    /\ pc = "write"
    /\ idx < Len(as_string(call.cmd))
    /\ \/ /\ tx' = Append(tx, NextByte(call.cmd, idx))
          /\ idx' = idx + 1
          /\ UNCHANGED <<pc, ret>>
       \/ /\ ReturnWrite
          /\ UNCHANGED <<tx, idx>>
    /\ UNCHANGED <<mode, state, res_q, urc_q, com_q, timer, since, call,
                   turns, ends, attempts, sent>>

\* After the last byte: flush, then state = AwaitingResponse and the mode
\* match (Mode::Timeout starts the timer); or the flush fails.
Flush ==
    /\ pc = "write"
    /\ idx = Len(as_string(call.cmd))
    /\ \/ /\ state' = "AwaitingResponse"
          /\ turns' = turns + 1
          /\ sent' = Append(sent, call.cmd)
          /\ timer' = DispatchTimer(mode, call.cmd, timer)
          /\ call' = [call EXCEPT !.flush = @ + 1,
                                  !.armed = @ \cup DispatchArmed(mode)]
          /\ pc' = "poll"
          /\ ret' = ret
       \/ /\ ReturnWrite
          /\ UNCHANGED <<state, turns, timer, call, sent>>
    /\ UNCHANGED <<mode, idx, tx, res_q, urc_q, com_q, since, ends, attempts>>

\* One iteration of send's poll of check_response.
Poll ==
    /\ pc = "poll"
    /\ RunCheck(call.cmd, call)

\* ------------------------------------------------------------- host calls
\* The host calls check_response(cmd) itself.
CheckResponseCall(c) ==
    /\ pc = "ready"
    /\ RunCheck(c, NewCall("check_response", c))

\* A check_urc that ends the turn in flight when it consumes a URC.
CheckUrcEndsTurn ==
    /\ pc = "ready"
    /\ IF urc_q = <<>>
       THEN /\ ret' = [kind |-> "None", val |-> "none", slot |-> NoSlot]
            /\ call' = NewCall("check_urc", "none")
            /\ UNCHANGED <<urc_q, timer, since, state>>
       ELSE /\ timer' = cmd_cooldown
            /\ since' = 0
            /\ state' = "Idle"
            /\ urc_q' = Tail(urc_q)
            /\ call' = [NewCall("check_urc", "none") EXCEPT
                          !.armed = {"cooldown"}]
            /\ ret' = [kind |-> urc_parse(Head(urc_q)).kind,
                       val |-> urc_parse(Head(urc_q)).val,
                       slot |-> NoSlot]
    /\ UNCHANGED <<mode, pc, idx, tx, res_q, com_q, turns, ends,
                   attempts, sent>>

\* A check_urc that starts the cooldown only for a URC that parses.
CheckUrcArmsOnParse ==
    /\ pc = "ready"
    /\ IF urc_q = <<>>
       THEN /\ ret' = [kind |-> "None", val |-> "none", slot |-> NoSlot]
            /\ call' = NewCall("check_urc", "none")
            /\ UNCHANGED <<urc_q, timer, since>>
       ELSE /\ timer' = IF urc_parse(Head(urc_q)).kind = "None"
                        THEN timer ELSE cmd_cooldown
            /\ since' = IF urc_parse(Head(urc_q)).kind = "None"
                        THEN since ELSE 0
            /\ urc_q' = Tail(urc_q)
            /\ call' = [NewCall("check_urc", "none") EXCEPT
                          !.armed = IF urc_parse(Head(urc_q)).kind = "None"
                                    THEN {} ELSE {"cooldown"}]
            /\ ret' = [kind |-> urc_parse(Head(urc_q)).kind,
                       val |-> urc_parse(Head(urc_q)).val,
                       slot |-> NoSlot]
    /\ UNCHANGED <<mode, state, pc, idx, tx, res_q, com_q, turns, ends,
                   attempts, sent>>

\* check_urc: nothing when the URC queue is empty; otherwise start the
\* timer with the cooldown, dequeue one URC and parse it.
CheckUrc ==
    /\ pc = "ready"
    /\ IF urc_q = <<>>
       THEN /\ ret' = [kind |-> "None", val |-> "none", slot |-> NoSlot]
            /\ call' = NewCall("check_urc", "none")
            /\ UNCHANGED <<urc_q, timer, since>>
       ELSE /\ timer' = cmd_cooldown
            /\ since' = 0
            /\ urc_q' = Tail(urc_q)
            /\ call' = [NewCall("check_urc", "none") EXCEPT
                          !.armed = {"cooldown"}]
            /\ ret' = [kind |-> urc_parse(Head(urc_q)).kind,
                       val |-> urc_parse(Head(urc_q)).val,
                       slot |-> NoSlot]
    /\ UNCHANGED <<mode, state, pc, idx, tx, res_q, com_q, turns, ends,
                   attempts, sent>>

\* ------------------------------------------------------------- environment
\* call and ret describe the call in progress or the return that has just
\* happened: a step of the environment between two calls leaves them blank.
Between ==
    /\ call' = IF pc = "ready" THEN NoCall ELSE call
    /\ ret' = IF pc = "ready" THEN NoRet ELSE ret

\* The ingress manager enqueues a response slot. The slot remembers whether
\* it is late: enqueued after a command was emitted and its turn had ended
\* (the state was back to Idle).
IngressResponse ==
    /\ Len(res_q) < ResCap
    /\ \E ok \in BOOLEAN :
         \E v \in (IF ok THEN Payloads ELSE IngressErrors) :
            res_q' = Append(res_q, [ok |-> ok, val |-> v,
                                    late |-> turns >= 1 /\ state = "Idle"])
    /\ Between
    /\ UNCHANGED <<mode, state, pc, idx, tx, urc_q, com_q, timer, since,
                   turns, ends, attempts, sent>>

\* The ingress manager enqueues a URC.
IngressUrc ==
    /\ Len(urc_q) < UrcCap
    /\ \E u \in UrcPayloads : urc_q' = Append(urc_q, u)
    /\ Between
    /\ UNCHANGED <<mode, state, pc, idx, tx, res_q, com_q, timer, since,
                   turns, ends, attempts, sent>>

\* The ingress manager takes a tag off the command queue.
IngressCommand ==
    /\ com_q # <<>>
    /\ com_q' = Tail(com_q)
    /\ Between
    /\ UNCHANGED <<mode, state, pc, idx, tx, res_q, urc_q, timer, since,
                   turns, ends, attempts, sent>>

\* One clock tick: a running timer counts down.
Tick ==
    /\ timer > 0 \/ since < cmd_cooldown
    /\ timer' = IF timer > 0 THEN timer - 1 ELSE 0
    /\ since' = IF since < cmd_cooldown THEN since + 1 ELSE since
    /\ Between
    /\ UNCHANGED <<mode, state, pc, idx, tx, res_q, urc_q, com_q,
                   turns, ends, attempts, sent>>

Next ==
    \/ \E c \in Cmds : SendCall(c)
    \/ CooldownWait
    \/ WriteByte
    \/ Flush
    \/ Poll
    \/ \E c \in Cmds : CheckResponseCall(c)
    \/ CheckUrc
    \/ IngressResponse
    \/ IngressUrc
    \/ IngressCommand
    \/ Tick

Spec == Init /\ [][Next]_vars

\* ------------------------------------------------------------- progress
\* A call runs on the host's thread until it returns: every block!(..) in
\* send is a loop that keeps trying, so the cooldown wait goes on once the
\* timer has elapsed, the transport's answer to a write or a flush (taken or
\* failed) is acted on, and the poll acts on whatever it finds. The clock
\* keeps ticking. Nothing obliges the host to make another call or the
\* ingress side to enqueue anything.
FairSpec ==
    /\ Spec
    /\ WF_vars(CooldownWait)
    /\ WF_vars(WriteByte)
    /\ WF_vars(Flush)
    /\ WF_vars(Poll)
    /\ WF_vars(Tick)

\* ------------------------------------------------------------- properties
\* The outcomes of send and check_response that end a turn for the host.
Terminal == {"Resp", "Write", "Timeout", "IngressErr", "ParseErr"}

\* A call of one of the operations ops has just returned.
Returned(ops) == pc = "ready" /\ call.op \in ops

\* C1: whenever send has returned a terminal outcome (a parsed response,
\* Write, Timeout, an ingress-side error or a parse error), the client state
\* is Idle.
C1_TerminalLeavesIdle ==
    (Returned({"send"}) /\ ret.kind \in Terminal) => state = "Idle"

\* C2: after send or check_response has returned a response-phase failure
\* (an Err slot, a parse error or Timeout), the next call of send starts a
\* fresh turn: it goes to the emission steps, not straight to the poll.
C2_FailureThenFreshTurn ==
    [][(/\ Returned({"send", "check_response"})
        /\ ret.kind \in {"IngressErr", "ParseErr", "Timeout"}
        /\ pc' # "ready") => pc' = "cooldown"]_vars

\* C3: a response slot that the ingress side enqueued after an earlier turn
\* had ended is never returned by send or check_response as the outcome of a
\* later turn. (An outcome is returned in AwaitingResponse only, and a late
\* slot was enqueued in Idle: a new turn has begun in between.)
C3_NoStaleOutcome ==
    (Returned({"send", "check_response"}) /\ ret.kind \in {"Resp", "ParseErr"})
        => ~ret.slot.late

\* C4: no byte of a command is written to the transport before cmd_cooldown
\* has passed since the client last consumed an Ok response or a URC.
C4_CooldownBeforeWrite ==
    [][tx' # tx => since >= cmd_cooldown]_vars

\* C5: a send called while the state is AwaitingResponse writes no byte,
\* does not flush, offers no ForceState and does not wait on the cooldown;
\* from its first step on it only polls, so the transport output stays what
\* it was.
C5_RetrySkipsEmission ==
    [][(call'.op = "send" /\ call'.start = "AwaitingResponse") =>
          /\ tx' = tx
          /\ pc' \in {"poll", "ready"}
          /\ call'.flush = 0
          /\ call'.force = 0
          /\ Len(com_q') > Len(com_q) => com_q'[Len(com_q')] # "ForceState"
      ]_vars

\* A retried send has returned would-block and the transport still holds
\* exactly what the first send wrote.
C5_Witness ==
    /\ Returned({"send"})
    /\ call.start = "AwaitingResponse"
    /\ ret.kind = "WouldBlock"
    /\ tx = as_string(call.cmd)

\* The concatenation of the wire forms of the commands cs.
RECURSIVE Concat(_)
Concat(cs) ==
    IF cs = <<>> THEN <<>> ELSE as_string(Head(cs)) \o Concat(Tail(cs))

\* No emission has failed so far: every started emission has completed or
\* is the one running.
NoWriteFailure ==
    attempts = turns + (IF pc \in {"cooldown", "write"} THEN 1 ELSE 0)

C6_Concatenation ==
    NoWriteFailure =>
        /\ Len(sent) = turns
        /\ tx = Concat(sent) \o (IF pc = "write"
                                 THEN SubSeq(as_string(call.cmd), 1, idx)
                                 ELSE <<>>)

C6_Transition ==
    (state = "Idle" /\ state' = "AwaitingResponse") =>
        /\ call.op = "send"
        /\ call.start = "Idle"
        /\ SubSeq(tx, call.mark + 1, Len(tx)) = as_string(call.cmd)
        /\ tx' = tx
        /\ call.flush = 0
        /\ call'.flush = 1

\* C6: every Idle -> AwaitingResponse transition happens in a send that has
\* written exactly the bytes of the command's serialized form, in order,
\* and flushes once; while no write has failed the transport holds the
\* concatenation of the serialized commands in emission order.
C6_EmitsEachByteOnce == []C6_Concatenation /\ [][C6_Transition]_vars

\* Two commands have been emitted without a write failure.
C6_Witness ==
    /\ NoWriteFailure
    /\ sent = <<"cfun", "cun">>
    /\ tx = <<"F", "4", "U", "0">>
    /\ state = "AwaitingResponse"

\* C7: when check_response dequeues an Ok slot while the state is Idle, it
\* returns would-block, the state stays Idle, the timer is not started, no
\* tag goes to the command queue and the slot is gone.
C7_StaleOkDiscarded ==
    [][(/\ res_q # <<>>
        /\ res_q' = Tail(res_q)
        /\ Head(res_q).ok
        /\ state = "Idle") =>
          /\ pc' = "ready"
          /\ call'.op = "check_response"
          /\ ret'.kind = "WouldBlock"
          /\ ret'.slot = Head(res_q)
          /\ state' = "Idle"
          /\ timer' = timer
          /\ since' = since
          /\ call'.armed = {}
          /\ com_q' = com_q
      ]_vars

\* check_response has discarded an Ok slot while Idle.
C7_Witness ==
    /\ Returned({"check_response"})
    /\ ret.kind = "WouldBlock"
    /\ ret.slot # NoSlot
    /\ ret.slot.ok
    /\ state = "Idle"
    /\ res_q = <<>>

\* C8: check_urc never changes the client state: after it the state is what
\* it was when it was called, whatever the URC queue held.
C8_UrcKeepsState ==
    call.op = "check_urc" => state = call.start

\* check_urc has consumed a URC in the middle of a turn.
C8_Witness ==
    /\ Returned({"check_urc"})
    /\ "cooldown" \in call.armed
    /\ state = "AwaitingResponse"

\* C9 as claimed: a send or check_response that returns a terminal error
\* (Write, Timeout, ingress error, parse error) has not started the timer
\* with cmd_cooldown.
C9_NoCooldownOnAnyError ==
    (/\ Returned({"send", "check_response"})
     /\ ret.kind \in {"Write", "Timeout", "IngressErr", "ParseErr"})
        => "cooldown" \notin call.armed

\* C9 as amended: a send or check_response that returns Write, Timeout or
\* an ingress error has not started the timer with cmd_cooldown; one that
\* returns a parse error has, as has one that returns a parsed response;
\* and no other outcome of these calls comes with the cooldown started.
C9_CooldownOnlyOnConsumedOk ==
    Returned({"send", "check_response"}) =>
        /\ ret.kind \in {"Write", "Timeout", "IngressErr"}
              => "cooldown" \notin call.armed
        /\ ret.kind \in {"ParseErr", "Resp"} => "cooldown" \in call.armed
        /\ "cooldown" \in call.armed => ret.kind \in {"ParseErr", "Resp"}

\* send has returned a parse error and the timer carries the cooldown.
C9_Witness ==
    /\ Returned({"send"})
    /\ ret.kind = "ParseErr"
    /\ "cooldown" \in call.armed
    /\ timer = cmd_cooldown

\* A step in which send or check_response returns Timeout.
TimeoutReturn == pc' = "ready" /\ ret'.kind = "Timeout"

C10_State ==
    /\ (Returned({"send", "check_response"}) /\ ret.kind = "Timeout") =>
          /\ mode = "Timeout"
          /\ state = "Idle"
          /\ call.clear = 1
    /\ (Returned({"send", "check_response"}) /\ call.clear > 0) =>
          ret.kind = "Timeout"
    /\ mode # "Timeout" =>
          /\ ret.kind # "Timeout"
          /\ call.clear = 0
          /\ \A i \in 1..Len(com_q) : com_q[i] # "ClearBuffer"

C10_Step ==
    TimeoutReturn =>
        /\ res_q = <<>>
        /\ res_q' = <<>>
        /\ TimerElapsed(timer)
        /\ com_q' = Enqueue(com_q, "ClearBuffer", ComCap)

\* C10: Timeout is returned only in Mode::Timeout, only with the response
\* queue empty and the timer elapsed; the state is Idle afterwards and
\* exactly one ClearBuffer has been offered to the command queue (it is
\* enqueued if there is room). In the other modes Timeout is never returned
\* and ClearBuffer never offered.
C10_TimeoutOnlyInTimeoutMode == []C10_State /\ [][C10_Step]_vars

\* send has returned Timeout and its ClearBuffer is on the command queue.
C10_Witness ==
    /\ Returned({"send"})
    /\ ret.kind = "Timeout"
    /\ call.clear = 1
    /\ com_q = <<"ClearBuffer">>

\* The command queue after a tag has been offered to it: appended when there
\* is room, dropped when there is none.
Offered(q, tag) == IF Len(q) < ComCap THEN Append(q, tag) ELSE q

\* The command queue is full and holds ClearBuffer tags only.
FullOfClearBuffer ==
    /\ Len(com_q) = ComCap
    /\ \A i \in DOMAIN com_q : com_q[i] = "ClearBuffer"

\* A send that starts in Idle with a command that forces the receive state
\* goes on to the cooldown wait with nothing returned, written, started or
\* changed, whether the command queue took the ForceState tag or not.
C11_ForceStateStep ==
    (/\ pc = "ready"
     /\ call'.op = "send"
     /\ state = "Idle"
     /\ force_receive_state(call'.cmd))
    => /\ pc' = "cooldown"
       /\ ret' = Pending
       /\ call'.force = 1
       /\ call'.armed = {}
       /\ com_q' = Offered(com_q, "ForceState")
       /\ UNCHANGED <<state, tx, timer, since, res_q, urc_q, turns, ends>>

\* An execution of check_response in Mode::Timeout with an empty response
\* queue and an elapsed timer returns Timeout with the state Idle, whether
\* the command queue took the ClearBuffer tag or not.
C11_ClearBufferStep ==
    (/\ mode = "Timeout"
     /\ res_q = <<>>
     /\ timer = 0
     /\ \/ pc = "poll" /\ call' # call
        \/ pc = "ready" /\ call'.op = "check_response")
    => /\ pc' = "ready"
       /\ ret' = [kind |-> "Timeout", val |-> "none", slot |-> NoSlot]
       /\ state' = "Idle"
       /\ call'.clear = 1
       /\ com_q' = Offered(com_q, "ClearBuffer")
       /\ UNCHANGED <<tx, timer, since, res_q, urc_q, turns>>

\* A polling send in Mode::Timeout whose timer has elapsed with nothing in
\* the response queue can return Timeout, with room in the command queue
\* or without.
C11_TimeoutReturned ==
    (pc = "poll" /\ mode = "Timeout" /\ res_q = <<>> /\ timer = 0)
    => ENABLED (/\ Poll
                /\ pc' = "ready"
                /\ ret'.kind = "Timeout"
                /\ state' = "Idle")

\* C11: a full command queue never changes what the client does or returns.
\* Every step of the client that offers a tag to the command queue has the
\* same return value, bytes written, timer starts and state transition when
\* the queue is full as when it has room: the emission proceeds after a
\* failed ForceState enqueue, and Timeout is still returned after a failed
\* ClearBuffer enqueue. Only the command queue itself differs.
C11_FullQueueChangesNothing ==
    /\ []C11_TimeoutReturned
    /\ [][C11_ForceStateStep /\ C11_ClearBufferStep]_vars

\* The ForceState tag found no room (the queue holds ClearBuffer tags only)
\* and the command has been emitted all the same.
C11_Witness ==
    /\ pc = "poll"
    /\ call.force = 1
    /\ call.flush = 1
    /\ FullOfClearBuffer

\* This step is one execution of check_response: an iteration of send's poll
\* or a call by the host.
CheckStep ==
    \/ pc = "poll" /\ call' # call
    \/ pc = "ready" /\ call'.op = "check_response"

\* Mode::NonBlocking: a call has tried the response queue at most once, a
\* send that has tried it is not polling any more, and what a call returns
\* is never Timeout; a would-block for want of a slot leaves the state as
\* it was, AwaitingResponse after send.
C12_State ==
    mode = "NonBlocking" =>
        /\ call.polls <= 1
        /\ pc = "poll" => call.polls = 0
        /\ Returned({"send", "check_response"}) =>
              /\ ret.kind # "Timeout"
              /\ ret.kind # "Write" => call.polls = 1
              /\ (ret.kind = "WouldBlock" /\ ret.slot = NoSlot) =>
                    /\ state = call.start \/ call.flush = 1
                    /\ call.op = "send" => state = "AwaitingResponse"

\* Mode::NonBlocking: an execution of check_response that finds no slot
\* returns would-block at once and changes nothing; one that finds an Ok
\* slot while AwaitingResponse returns its parse with the state Idle.
C12_Step ==
    (mode = "NonBlocking" /\ CheckStep) =>
        /\ pc' = "ready"
        /\ res_q = <<>> =>
              /\ ret' = [kind |-> "WouldBlock", val |-> "none",
                         slot |-> NoSlot]
              /\ UNCHANGED <<state, timer, res_q, urc_q, com_q, tx>>
        /\ (res_q # <<>> /\ Head(res_q).ok /\ state = "AwaitingResponse") =>
              /\ ret'.kind = parse(call'.cmd, Head(res_q).val).kind
              /\ ret'.val = parse(call'.cmd, Head(res_q).val).val
              /\ state' = "Idle"
              /\ res_q' = Tail(res_q)

\* C12: in NonBlocking mode send (after emission, or on retry) and
\* check_response make at most one dequeue attempt on the response queue per
\* call and never loop on it: with no slot ready they return would-block
\* immediately, leave the state AwaitingResponse and never return Timeout; a
\* later call, after an Ok slot is enqueued, returns the parsed response
\* with the state Idle.
C12_NonBlockingTriesOnce == []C12_State /\ [][C12_Step]_vars

\* The host's check_response, called in AwaitingResponse after the Ok slot
\* arrived, has returned the parsed response on its one attempt.
C12_Witness ==
    /\ mode = "NonBlocking"
    /\ Returned({"check_response"})
    /\ call.start = "AwaitingResponse"
    /\ call.polls = 1
    /\ ret.kind = "Resp"
    /\ state = "Idle"

\* The bytes written since the running or returned call began.
Written == SubSeq(tx, call.mark + 1, Len(tx))

\* A send that has returned Write: the state is Idle, what it wrote is a
\* prefix of the command string, it never executed check_response and
\* started no timer.
C13_State ==
    (Returned({"send"}) /\ ret.kind = "Write") =>
        /\ state = "Idle"
        /\ call.start = "Idle"
        /\ idx <= Len(as_string(call.cmd))
        /\ Written = SubSeq(as_string(call.cmd), 1, idx)
        /\ call.polls = 0
        /\ call.armed = {}
        /\ call.flush = 0
        /\ ret.slot = NoSlot

\* The step that returns Write writes nothing more, dequeues nothing and
\* leaves the timer and the state alone; the send after it starts the
\* emission over, at the cooldown wait with no byte written yet.
C13_Step ==
    /\ (pc' = "ready" /\ ret'.kind = "Write") =>
          UNCHANGED <<tx, res_q, timer, state, since>>
    /\ (Returned({"send"}) /\ ret.kind = "Write" /\ call'.op = "send") =>
          /\ pc' = "cooldown"
          /\ idx' = 0
          /\ call'.mark = Len(tx)

\* C13: if a transport write or the flush fails terminally during emission,
\* send returns Write immediately: the state is Idle on return, the
\* remaining bytes are not written, the response queue is not consulted (no
\* slot is dequeued), the timer is not started, and a subsequent send
\* re-runs the emission from the first byte.
C13_WriteFailureReturnsAtOnce == []C13_State /\ [][C13_Step]_vars

\* The first send failed after one byte and the second send has emitted the
\* whole command again.
C13_Witness ==
    /\ pc = "poll"
    /\ attempts = 2
    /\ turns = 1
    /\ call.flush = 1
    /\ call.mark = 1
    /\ Written = as_string(call.cmd)

\* This step returns from send or check_response with an outcome in kinds.
Returns(kinds) ==
    /\ pc' = "ready"
    /\ call'.op \in {"send", "check_response"}
    /\ ret'.kind \in kinds

\* This step takes the state from a to b.
Goes(a, b) == state = a /\ state' = b

\* C14: transitions and outcomes are in one-to-one correspondence: the state
\* goes Idle->AwaitingResponse exactly once per successful emission, and
\* every terminal outcome reported by send or check_response (response
\* delivered, Timeout, or fatal parse error) coincides with exactly one
\* AwaitingResponse->Idle transition; no terminal outcome such as Timeout is
\* reported by a call that started with the state Idle and no command in
\* flight.
C14_OneToOne ==
    [][/\ Goes("Idle", "AwaitingResponse") <=> sent' # sent
       /\ Goes("AwaitingResponse", "Idle")
             <=> (Returns({"Resp", "Timeout", "ParseErr"}) /\ vars' # vars)
       /\ Returns({"Resp", "Timeout", "ParseErr"}) => ends' = ends + 1
       /\ (Returns({"Resp", "Timeout", "ParseErr"}) /\ call'.start = "Idle")
             => call'.flush = 1]_vars

\* The commands in flight: emissions completed less turns ended.
InFlight == Len(sent) - ends

\* C15: at most one command is in flight: in every reachable state the
\* number of completed emissions minus the number of AwaitingResponse->Idle
\* transitions is 0 or 1, and it is 1 exactly when the state is
\* AwaitingResponse; no byte of a second command is ever written while the
\* state is AwaitingResponse.
C15_AtMostOneInFlight ==
    /\ [](/\ InFlight \in {0, 1}
          /\ InFlight = 1 <=> state = "AwaitingResponse")
    /\ [][tx' # tx => (state = "Idle" /\ state' = "Idle")]_vars

\* A second command is in flight after the first turn has ended.
C15_Witness ==
    /\ state = "AwaitingResponse"
    /\ Len(sent) = 2
    /\ ends = 1
    /\ Len(tx) = 4

\* C16: when check_response dequeues an Ok(payload) slot while the state is
\* AwaitingResponse, it starts the timer with cmd_cooldown, sets the state to
\* Idle and returns exactly cmd.parse(payload): the parsed value on success,
\* the parse error as a terminal error on failure; in both cases the slot is
\* consumed, the state is Idle, and the queue is not polled again by that
\* call.
C16_OkSlotEndsTurn ==
    [][(/\ CheckStep
        /\ res_q # <<>>
        /\ Head(res_q).ok
        /\ state = "AwaitingResponse")
       => /\ timer' = cmd_cooldown
          /\ "cooldown" \in call'.armed
          /\ since' = 0
          /\ state' = "Idle"
          /\ ends' = ends + 1
          /\ ret' = [kind |-> parse(call'.cmd, Head(res_q).val).kind,
                     val |-> parse(call'.cmd, Head(res_q).val).val,
                     slot |-> Head(res_q)]
          /\ ret'.kind \in {"Resp", "ParseErr"}
          /\ res_q' = Tail(res_q)
          /\ pc' = "ready"
          /\ UNCHANGED <<tx, urc_q, com_q>>]_vars

\* A blocking send took an Ok slot its command cannot parse: it has returned
\* the parse error after one more execution of check_response, with the
\* state Idle, the slot gone and the cooldown running.
C16_Witness ==
    /\ mode = "Blocking"
    /\ Returned({"send"})
    /\ call.flush = 1
    /\ ret.kind = "ParseErr"
    /\ ret.slot.ok
    /\ state = "Idle"
    /\ res_q = <<>>
    /\ timer = cmd_cooldown

\* This step is a call of check_urc.
UrcStep == pc = "ready" /\ call'.op = "check_urc"

\* check_urc on an empty URC queue: none, and nothing changes.
C17_Empty ==
    (UrcStep /\ urc_q = <<>>) =>
        /\ ret' = [kind |-> "None", val |-> "none", slot |-> NoSlot]
        /\ call'.armed = {}
        /\ UNCHANGED <<timer, since, urc_q, res_q, com_q, state, tx, pc>>

\* check_urc on a non-empty URC queue: the oldest item goes, the timer is
\* started with the cooldown whatever the parser says, and the parser's
\* variant or none is returned.
C17_NonEmpty ==
    (UrcStep /\ urc_q # <<>>) =>
        /\ urc_q' = Tail(urc_q)
        /\ timer' = cmd_cooldown
        /\ call'.armed = {"cooldown"}
        /\ ret'.kind = (IF Head(urc_q) = "umwi" THEN "Urc" ELSE "None")
        /\ ret'.val = urc_parse(Head(urc_q)).val
        /\ UNCHANGED <<res_q, com_q, state, tx, pc>>

\* Nothing but a call of check_urc takes an item off the URC queue.
C17_OnlyUrcStepDrains == Len(urc_q') < Len(urc_q) => UrcStep

\* C17: check_urc with an empty URC queue returns none and changes nothing
\* (timer, queues, state); with a non-empty URC queue it removes exactly one
\* item (the oldest), starts the timer with cmd_cooldown whether or not the
\* item parses, and returns the parsed variant or none on parse failure. The
\* queue loses one item per call and none otherwise, so k queued URCs need
\* exactly k check_urc calls to drain.
C17_UrcOnePerCall ==
    [][C17_Empty /\ C17_NonEmpty /\ C17_OnlyUrcStepDrains]_vars

\* check_urc took a URC that does not parse from a queue of two: it has
\* returned none with the cooldown started, and one URC is still queued.
C17_Witness ==
    /\ Returned({"check_urc"})
    /\ ret.kind = "None"
    /\ call.armed = {"cooldown"}
    /\ timer = cmd_cooldown
    /\ Len(urc_q) = 1

\* This step takes a slot off the response queue.
ResDequeue == res_q # <<>> /\ res_q' = Tail(res_q)

\* This step takes an item off the URC queue.
UrcDequeue == urc_q # <<>> /\ urc_q' = Tail(urc_q)

\* This step starts the timer with the cooldown.
StartsCooldown ==
    /\ timer' = cmd_cooldown
    /\ since' = 0
    /\ "cooldown" \in call'.armed

\* C18 as claimed: every frame the client removes from either ingress queue
\* re-arms the cooldown: each dequeue from the response queue (Ok or Err
\* slot, in any client state) and each dequeue from the URC queue comes, in
\* the same call, with a start of the timer with cmd_cooldown.
C18_EveryDequeueArms ==
    [][(ResDequeue \/ UrcDequeue) => StartsCooldown]_vars

\* C18 as the code has it: a dequeue from the URC queue always starts the
\* timer with cmd_cooldown; a dequeue from the response queue starts it
\* exactly when the slot is Ok and the state is AwaitingResponse. An Err
\* slot, and an Ok slot taken in Idle, leave the timer as it was.
C18_DequeueArmsWhenTurnEnds ==
    [][/\ UrcDequeue => StartsCooldown
       /\ ResDequeue =>
             IF Head(res_q).ok /\ state = "AwaitingResponse"
             THEN StartsCooldown
             ELSE timer' = timer /\ since' = since
                  /\ "cooldown" \notin call'.armed]_vars

\* The host's check_response took an Err slot in the middle of a turn and
\* the timer, elapsed before, has not been started.
C18_Witness ==
    /\ Returned({"check_response"})
    /\ ret.kind = "IngressErr"
    /\ call.start = "AwaitingResponse"
    /\ call.armed = {}
    /\ timer = 0
    /\ since = cmd_cooldown

\* Mode::Timeout: what send returns is never would-block, and a send that
\* is polling has started the timer for its timeout.
C19_State ==
    mode = "Timeout" =>
        /\ Returned({"send"}) => ret.kind \in Terminal
        /\ (pc = "poll" \/ (Returned({"send"}) /\ ret.kind # "Write"))
              => "timeout" \in call.armed

\* Mode::Timeout: the step that takes send into its poll starts the timer
\* with cmd.max_timeout_ms() and dequeues nothing.
C19_Step ==
    (mode = "Timeout" /\ pc # "poll" /\ pc' = "poll") =>
        /\ timer' = max_timeout_ms(call'.cmd)
        /\ res_q' = res_q

\* Mode::Timeout: a send in progress returns: the outcome of a slot it
\* dequeued or Timeout, or Write when the transport failed.
C19_Returns ==
    (mode = "Timeout" /\ call.op = "send" /\ pc # "ready")
    ~> (/\ Returned({"send"})
        /\ \/ ret.kind = "Write" /\ call.flush = 0
           \/ ret.kind = "Timeout" /\ ret.slot = NoSlot
           \/ ret.kind \in {"Resp", "ParseErr", "IngressErr"}
              /\ ret.slot # NoSlot)

\* C19: in BoundedTimeout mode every send call terminates with a terminal
\* outcome and never returns would-block: with a transport that answers
\* each write and a timer that elapses once started, send eventually
\* returns the outcome of a dequeued response slot or Timeout, even if the
\* ingress side never enqueues anything; each send call in this mode starts
\* the timer with cmd.max_timeout_ms() before polling.
C19_BoundedSendTerminates ==
    /\ []C19_State
    /\ [][C19_Step]_vars
    /\ C19_Returns

\* A send has emitted its command and returned Timeout when the timer ran
\* out, no slot having come.
C19_Witness ==
    /\ mode = "Timeout"
    /\ Returned({"send"})
    /\ call.flush = 1
    /\ "timeout" \in call.armed
    /\ ret.kind = "Timeout"
    /\ timer = 0
    /\ state = "Idle"

\* Mode::Blocking: what send returns is never would-block and never
\* Timeout; short of a failed emission it is the outcome of a slot it
\* dequeued; it starts no timer for a timeout.
C20_State ==
    mode = "Blocking" =>
        /\ "timeout" \notin call.armed
        /\ Returned({"send"}) =>
              /\ ret.kind \in {"Resp", "ParseErr", "IngressErr", "Write"}
              /\ ret.kind = "Write" <=> ret.slot = NoSlot
              /\ ret.kind = "Write" => call.polls = 0

\* Mode::Blocking: the poll returns only in a step that dequeues a slot, and
\* with an empty response queue the send stays in its poll.
C20_Step ==
    mode = "Blocking" =>
        /\ (pc = "poll" /\ pc' = "ready") =>
              /\ ResDequeue
              /\ ret'.slot = Head(res_q)
        /\ (pc = "poll" /\ res_q = <<>>) => pc' = "poll"

\* Mode::Blocking: once a slot is in the response queue the polling send
\* returns.
C20_Returns ==
    (mode = "Blocking" /\ pc = "poll" /\ res_q # <<>>)
    ~> (Returned({"send"}) /\ ret.slot # NoSlot)

\* C20: in Blocking mode send never returns would-block and never returns
\* Timeout: it keeps polling the response queue and returns only when a slot
\* has been dequeued (parsed response, parse error or ingress error); under
\* fairness, if the ingress side eventually enqueues a response slot the
\* call eventually returns, and as long as it does not the call does not
\* return.
C20_BlockingSendWaits ==
    /\ []C20_State
    /\ [][C20_Step]_vars
    /\ C20_Returns

\* A blocking send has polled an empty queue, then taken the slot that came
\* and returned the response.
C20_Witness ==
    /\ mode = "Blocking"
    /\ Returned({"send"})
    /\ call.polls = MaxPolls
    /\ ret.kind = "Resp"
    /\ ret.slot # NoSlot
    /\ res_q = <<>>

====
